---------------------------- MODULE Spec2Model ----------------------------
(***************************************************************************)
(* Commit-graph sequencing (src/src/jj/log.rs) and lane layout             *)
(* (src/src/graph.rs) of xorcist, with the App state that holds their      *)
(* results (src/src/app.rs).                                               *)
(*                                                                         *)
(* Indices that the code exposes (node_lane, Lane{lane}, the heap's idx)   *)
(* are 0-based as in the code; TLA+ sequences are 1-based, so element i    *)
(* of a Vec v is v[i + 1].                                                 *)
(***************************************************************************)
EXTENDS FiniteSets, Integers, Sequences, TLC

(***************************************************************************)
(* Bounds of the model.                                                    *)
(***************************************************************************)
\* Longest generated batch.
MaxLen == 3
\* Longest generated parent list of one record.
MaxParents == 2
\* Most features of one generated batch: each listed parent, each flag set
\* and each record repeating an earlier id counts as one.
MaxWeight == 3
\* Most records one fetch of an App run returns.
MaxFetch == 2
\* Most features of one fetch of an App run.
MaxFetchWeight == 1
\* Most records an App run holds: no page is loaded beyond it.
MaxEntries == 3

(***************************************************************************)
(* Glyph alphabet (graph.rs draws with Unicode box characters; the model   *)
(* names each one by an ASCII stand-in).                                   *)
(***************************************************************************)
\* '│'
G_VERT == "|"
\* '─'
G_HORIZ == "-"
\* '┼'
G_CROSS == "+"
\* '┐'
G_SPLIT == "7"
\* '┘'
G_CONVERGE == "J"
\* ' '
G_BLANK == " "
\* "@"
G_WORKING_COPY == "@"
\* "◆"
G_IMMUTABLE == "<>"
\* "○"
G_ORDINARY == "o"

(***************************************************************************)
(* Generic helpers for Vec operations.                                     *)
(***************************************************************************)
SetMax(S) == CHOOSE x \in S : \A y \in S : y <= x

SetMin(S) == CHOOSE x \in S : \A y \in S : x <= y

Max2(a, b) == IF a >= b THEN a ELSE b

\* Vec::insert(i, x), i 0-based, i <= len.
InsertAt(s, i, x) == SubSeq(s, 1, i) \o <<x>> \o SubSeq(s, i + 1, Len(s))

\* Vec::remove(i), i 0-based, i < len.
RemoveAt(s, i) == SubSeq(s, 1, i) \o SubSeq(s, i + 2, Len(s))

\* The elements of a set of integers in ascending order.
RECURSIVE SortedSeq(_)
SortedSeq(S) ==
    IF S = {} THEN <<>>
    ELSE LET m == SetMin(S) IN <<m>> \o SortedSeq(S \ {m})

(***************************************************************************)
(* LogEntry: the fields the sequencer and the layout read.                 *)
(***************************************************************************)
LogEntry(id, parents, wc, imm) ==
    [commit_id_full |-> id, parent_commit_ids |-> parents,
     is_working_copy |-> wc, is_immutable |-> imm]

\* Variant: the immutable flag tested before the working-copy flag.
graph_symbol_immutable_first(entry) ==
    IF entry.is_immutable THEN G_IMMUTABLE
    ELSE IF entry.is_working_copy THEN G_WORKING_COPY
    ELSE G_ORDINARY

graph_symbol(entry) ==
    IF entry.is_working_copy THEN G_WORKING_COPY
    ELSE IF entry.is_immutable THEN G_IMMUTABLE
    ELSE G_ORDINARY

(***************************************************************************)
(* reorder_entries_for_graph, log.rs 164-244.                              *)
(***************************************************************************)
\* id_to_idx.get(id): the HashMap is collected from (id, i) pairs in order,
\* so a later record with the same id replaces an earlier one.  -1 is None.
IdToIdx(entries, id) ==
    LET hits == {i \in 0..(Len(entries) - 1) : entries[i + 1].commit_id_full = id}
    IN IF hits = {} THEN -1 ELSE SetMax(hits)

\* The in-slice parent indices of a record, one per listed parent, in order.
ParentIdxs(entries, entry) ==
    LET all == [k \in 1..Len(entry.parent_commit_ids) |->
                    IdToIdx(entries, entry.parent_commit_ids[k])]
    IN SelectSeq(all, LAMBDA x : x >= 0)

\* Number of occurrences of x in the sequence s.
Occurrences(s, x) == Cardinality({k \in 1..Len(s) : s[k] = x})

\* Variant: the counting loop left out, every record taken for a head.
InitialChildCountZero(entries) == [p \in 0..(Len(entries) - 1) |-> 0]

\* Variant: the references of a record to itself left out of the count.
InitialChildCountOthersOnly(entries) ==
    [p \in 0..(Len(entries) - 1) |->
        LET per == [i \in 1..Len(entries) |->
                        IF i - 1 = p THEN 0
                        ELSE Occurrences(ParentIdxs(entries, entries[i]), p)]
            sum[i \in 0..Len(entries)] ==
                IF i = 0 THEN 0 ELSE sum[i - 1] + per[i]
        IN sum[Len(entries)]]

\* child_count after the counting loop (log.rs 182-189).
InitialChildCount(entries) ==
    [p \in 0..(Len(entries) - 1) |->
        LET per == [i \in 1..Len(entries) |->
                        Occurrences(ParentIdxs(entries, entries[i]), p)]
            sum[i \in 0..Len(entries)] ==
                IF i = 0 THEN 0 ELSE sum[i - 1] + per[i]
        IN sum[Len(entries)]]

\* Variant: the original index not negated, later heads preferred.
SortPriorityLatestFirst(entries, idx) ==
    [is_working_copy |-> entries[idx + 1].is_working_copy,
     neg_original_idx |-> idx]

\* SortPriority and the heap element (SortPriority, idx).
SortPriority(entries, idx) ==
    [is_working_copy |-> entries[idx + 1].is_working_copy,
     neg_original_idx |-> -idx]

HeapItem(entries, idx) == [priority |-> SortPriority(entries, idx), idx |-> idx]

\* Variant: the derived order without the is_working_copy field.
PriorityLessIndexOnly(a, b) ==
    \/ a.priority.neg_original_idx < b.priority.neg_original_idx
    \/ /\ a.priority.neg_original_idx = b.priority.neg_original_idx
       /\ a.idx < b.idx

\* Variant: the derived order without the neg_original_idx field, so that
\* the tuple's idx decides among equally flagged records.
PriorityLessFlagThenIdx(a, b) ==
    \/ (~a.priority.is_working_copy) /\ b.priority.is_working_copy
    \/ /\ a.priority.is_working_copy = b.priority.is_working_copy
       /\ a.idx < b.idx

\* Ord for (SortPriority, usize): (is_working_copy, neg_original_idx), then idx.
PriorityLess(a, b) ==
    \/ (~a.priority.is_working_copy) /\ b.priority.is_working_copy
    \/ /\ a.priority.is_working_copy = b.priority.is_working_copy
       /\ a.priority.neg_original_idx < b.priority.neg_original_idx
    \/ /\ a.priority.is_working_copy = b.priority.is_working_copy
       /\ a.priority.neg_original_idx = b.priority.neg_original_idx
       /\ a.idx < b.idx

\* Variant: a min-heap, pop returns the least element.
HeapTopLeast(h) == CHOOSE a \in h : \A b \in h : b = a \/ PriorityLess(a, b)

\* BinaryHeap::pop: the greatest element.
HeapTop(h) == CHOOSE a \in h : \A b \in h : b = a \/ PriorityLess(b, a)

\* The heap seeded with the heads (log.rs 196-205).
InitialHeap(entries, cc) ==
    {HeapItem(entries, idx) : idx \in {i \in 0..(Len(entries) - 1) : cc[i] = 0}}

\* The local state of the Kahn loop.
KahnInit(entries) ==
    LET cc == InitialChildCount(entries)
    IN [child_count |-> cc, heap |-> InitialHeap(entries, cc),
        emitted |-> {}, order |-> <<>>]

\* Variant: a parent is pushed at every decrement, zero or not.
RECURSIVE DecrementParentsEager(_, _, _, _, _)
DecrementParentsEager(entries, ps, k, st, emitted) ==
    IF k > Len(ps) THEN st
    ELSE LET parent_idx == ps[k]
         IN IF st.child_count[parent_idx] > 0
            THEN LET cc == [st.child_count EXCEPT ![parent_idx] = @ - 1]
                     hp == IF parent_idx \notin emitted
                           THEN st.heap \cup {HeapItem(entries, parent_idx)}
                           ELSE st.heap
                 IN DecrementParentsEager(entries, ps, k + 1,
                        [child_count |-> cc, heap |-> hp], emitted)
            ELSE DecrementParentsEager(entries, ps, k + 1, st, emitted)

\* The parent loop of one pop (log.rs 220-233) over the parent indices ps,
\* starting at position k, on the pair (child_count, heap).
RECURSIVE DecrementParents(_, _, _, _, _)
DecrementParents(entries, ps, k, st, emitted) ==
    IF k > Len(ps) THEN st
    ELSE LET parent_idx == ps[k]
         IN IF st.child_count[parent_idx] > 0
            THEN LET cc == [st.child_count EXCEPT ![parent_idx] = @ - 1]
                     hp == IF cc[parent_idx] = 0 /\ parent_idx \notin emitted
                           THEN st.heap \cup {HeapItem(entries, parent_idx)}
                           ELSE st.heap
                 IN DecrementParents(entries, ps, k + 1,
                        [child_count |-> cc, heap |-> hp], emitted)
            ELSE DecrementParents(entries, ps, k + 1, st, emitted)

\* One iteration of `while let Some((_, idx)) = heap.pop()` (log.rs 211-236).
KahnPop(entries, st) ==
    LET top == HeapTop(st.heap)
        idx == top.idx
        rest == st.heap \ {top}
    IN IF idx \in st.emitted
       THEN [st EXCEPT !.heap = rest]
       ELSE LET emitted == st.emitted \cup {idx}
                after == DecrementParents(entries,
                            ParentIdxs(entries, entries[idx + 1]), 1,
                            [child_count |-> st.child_count, heap |-> rest],
                            emitted)
            IN [child_count |-> after.child_count, heap |-> after.heap,
                emitted |-> emitted, order |-> Append(st.order, idx)]

\* Variant: the fallback loop left out.
LeftoverDropped(entries, emitted) == <<>>

\* The indices appended by the fallback loop (log.rs 239-241): the entries
\* still Some in entries_opt, in their original order.
Leftover(entries, emitted) ==
    SortedSeq({i \in 0..(Len(entries) - 1) : i \notin emitted})

RECURSIVE KahnRun(_, _)
KahnRun(entries, st) ==
    IF st.heap = {} THEN st ELSE KahnRun(entries, KahnPop(entries, st))

\* The original indices in the order reorder_entries_for_graph returns them.
ReorderIdx(entries) ==
    IF Len(entries) <= 1 THEN [i \in 1..Len(entries) |-> i - 1]
    ELSE LET st == KahnRun(entries, KahnInit(entries))
         IN st.order \o Leftover(entries, st.emitted)

Pick(entries, idxs) == [i \in 1..Len(idxs) |-> entries[idxs[i] + 1]]

reorder_entries_for_graph(entries) == Pick(entries, ReorderIdx(entries))


(***************************************************************************)
(* build_graph_rows, graph.rs 55-222.                                      *)
(***************************************************************************)
\* CellKind::Lane { lane } and CellKind::Node { .. }.
LaneKind(lane) == [tag |-> "Lane", lane |-> lane]

\* Variant: the two flags of the node tag exchanged.
NodeKindFlagsExchanged(entry) ==
    [tag |-> "Node", is_working_copy |-> entry.is_immutable,
     is_immutable |-> entry.is_working_copy]

NodeKind(entry) ==
    [tag |-> "Node", is_working_copy |-> entry.is_working_copy,
     is_immutable |-> entry.is_immutable]

\* Variant: a lane cell created with a horizontal right half.
Cell2LaneJoined(lane, left, right) ==
    [left |-> left, right |-> G_HORIZ,
     kind_left |-> LaneKind(lane), kind_right |-> LaneKind(lane)]

\* Cell2::lane(lane, left, right).
Cell2Lane(lane, left, right) ==
    [left |-> left, right |-> right,
     kind_left |-> LaneKind(lane), kind_right |-> LaneKind(lane)]

\* idx_of.contains_key(p): p is the commit_id_full of some entry.
InSlice(entries, p) ==
    \E i \in 1..Len(entries) : entries[i].commit_id_full = p

\* Variant: the rightmost lane holding the id instead of the leftmost.
LanePositionLast(lanes, cid) ==
    LET hits == {i \in 0..(Len(lanes) - 1) : lanes[i + 1] = cid}
    IN IF hits = {} THEN -1 ELSE SetMax(hits)

\* active_lanes.iter().position(|x| x == cid), -1 for None.
LanePosition(lanes, cid) ==
    LET hits == {i \in 0..(Len(lanes) - 1) : lanes[i + 1] = cid}
    IN IF hits = {} THEN -1 ELSE SetMin(hits)

\* graph.rs 68-73.
NodeLane(lanes, cid) ==
    IF LanePosition(lanes, cid) >= 0 THEN LanePosition(lanes, cid) ELSE 0

\* Variant: a record not found in the lanes is not given one.
LanesWithNodeNotOpened(lanes, cid) == lanes

LanesWithNode(lanes, cid) ==
    IF LanePosition(lanes, cid) >= 0 THEN lanes ELSE InsertAt(lanes, 0, cid)

\* Variant: the lane of the node itself counted among the duplicates.
DupLanesAnySide(lanes, node_lane, cid) ==
    {i \in 0..(Len(lanes) - 1) : lanes[i + 1] = cid}

\* graph.rs 80-84.
DupLanesPreInsert(lanes, node_lane, cid) ==
    {i \in 0..(Len(lanes) - 1) : i > node_lane /\ lanes[i + 1] = cid}

\* Variant: every listed parent kept, present in the slice or not.
SliceParentsUnfiltered(entries, entry) == entry.parent_commit_ids

\* Variant: the parents of an immutable record are not followed.
SliceParentsOfMutable(entries, entry) ==
    IF entry.is_immutable THEN <<>>
    ELSE SelectSeq(entry.parent_commit_ids, LAMBDA p : InSlice(entries, p))

\* graph.rs 88-93: the parents present in the slice, in listed order.
SliceParents(entries, entry) ==
    SelectSeq(entry.parent_commit_ids, LAMBDA p : InSlice(entries, p))

\* graph.rs 97-101.
SplitCount(parents) == IF Len(parents) > 0 THEN Len(parents) - 1 ELSE 0

\* Variant: the other parents inserted at node_lane + k, left of the
\* primary parent.
RECURSIVE InsertOthersAtNode(_, _, _, _)
InsertOthersAtNode(lanes, node_lane, others, k) ==
    IF k >= Len(others) THEN lanes
    ELSE InsertOthersAtNode(InsertAt(lanes, node_lane + k, others[k + 1]),
                            node_lane, others, k + 1)

\* graph.rs 106-108: insert other_parents[k] at node_lane + 1 + k.
RECURSIVE InsertOthers(_, _, _, _)
InsertOthers(lanes, node_lane, others, k) ==
    IF k >= Len(others) THEN lanes
    ELSE InsertOthers(InsertAt(lanes, node_lane + 1 + k, others[k + 1]),
                      node_lane, others, k + 1)

\* Variant: the primary parent inserted beside the node instead of taking
\* its lane.
UpdateLanesKeepNode(lanes, node_lane, parents) ==
    IF Len(parents) > 0
    THEN InsertAt(lanes, node_lane + 1, parents[1])
    ELSE IF node_lane < Len(lanes) THEN RemoveAt(lanes, node_lane) ELSE lanes

\* Variant: the last in-batch parent takes the node's lane and the parents
\* before it are inserted to its right.
UpdateLanesPrimaryLast(lanes, node_lane, parents) ==
    IF Len(parents) > 0
    THEN InsertOthers([lanes EXCEPT ![node_lane + 1] = parents[Len(parents)]],
                      node_lane, SubSeq(parents, 1, Len(parents) - 1), 0)
    ELSE IF node_lane < Len(lanes) THEN RemoveAt(lanes, node_lane) ELSE lanes

\* graph.rs 104-115.
UpdateLanes(lanes, node_lane, parents) ==
    IF Len(parents) > 0
    THEN InsertOthers([lanes EXCEPT ![node_lane + 1] = parents[1]],
                      node_lane, Tail(parents), 0)
    ELSE IF node_lane < Len(lanes) THEN RemoveAt(lanes, node_lane) ELSE lanes

\* Variant: the duplicate positions taken as they were before the inserts.
ConvergeEndpointsUnshifted(dups, split_count) == dups

\* graph.rs 119-123.
ConvergeEndpoints(dups, split_count) == {i + split_count : i \in dups}

\* graph.rs 126-130: remove the endpoints right-to-left, each one only if it
\* is still inside the Vec.
RECURSIVE RemoveConverged(_, _)
RemoveConverged(lanes, endpoints) ==
    IF endpoints = {} THEN lanes
    ELSE LET idx == SetMax(endpoints)
         IN RemoveConverged(IF idx < Len(lanes) THEN RemoveAt(lanes, idx) ELSE lanes,
                            endpoints \ {idx})

\* graph.rs 135-139.
SplitEndpoints(node_lane, split_count) ==
    IF split_count = 0 THEN {} ELSE (node_lane + 1)..(node_lane + split_count)

\* Variant: the endpoints left out of the column count.
LaneCountNoEndpoints(active_lane_count, node_lane, split_endpoints, converge_endpoints) ==
    Max2(active_lane_count, node_lane + 1)

\* graph.rs 141-147.
LaneCount(active_lane_count, node_lane, split_endpoints, converge_endpoints) ==
    LET a == Max2(active_lane_count, node_lane + 1)
        b == IF split_endpoints = {} THEN a ELSE Max2(a, SetMax(split_endpoints) + 1)
    IN IF converge_endpoints = {} THEN b ELSE Max2(b, SetMax(converge_endpoints) + 1)

\* Variant: the node marker never drawn.
RenderCellsLanesOnly(entry, node_lane, render_count, lane_count, split_endpoints, converge_endpoints) ==
    [c \in 1..lane_count |->
        Cell2Lane(c - 1, IF c - 1 < render_count THEN G_VERT ELSE G_BLANK,
                  G_BLANK)]

\* Variant: the connector drawn plain over every lane it passes.
RenderCellsNoCrossing(entry, node_lane, render_count, lane_count, split_endpoints, converge_endpoints) ==
    LET init == [c \in 1..lane_count |->
                    Cell2Lane(c - 1,
                              IF c - 1 < render_count THEN G_VERT ELSE G_BLANK,
                              G_BLANK)]
        node == IF node_lane < Len(init)
                THEN [init EXCEPT ![node_lane + 1].left = graph_symbol(entry),
                                  ![node_lane + 1].kind_left = NodeKind(entry)]
                ELSE init
        ends == split_endpoints \cup converge_endpoints
        draw == ends # {} /\ SetMax(ends) > node_lane /\ node_lane < Len(node)
        target == SetMax(ends)
        horiz == [c \in 1..lane_count |->
                    IF c - 1 = node_lane
                    THEN [node[c] EXCEPT !.right = G_HORIZ]
                    ELSE IF c - 1 > node_lane /\ c - 1 <= target
                    THEN [node[c] EXCEPT
                            !.left = G_HORIZ,
                            !.right = IF c - 1 = target
                                      THEN G_BLANK ELSE G_HORIZ]
                    ELSE node[c]]
        split == [c \in 1..lane_count |->
                    IF c - 1 \in split_endpoints
                    THEN [horiz[c] EXCEPT !.left = G_SPLIT] ELSE horiz[c]]
        conv == [c \in 1..lane_count |->
                    IF c - 1 \in converge_endpoints
                    THEN [split[c] EXCEPT !.left = G_CONVERGE] ELSE split[c]]
    IN IF draw THEN conv ELSE node

\* graph.rs 151-212: the cells of one row.
RenderCells(entry, node_lane, render_count, lane_count, split_endpoints, converge_endpoints) ==
    LET init == [c \in 1..lane_count |->
                    Cell2Lane(c - 1,
                              IF c - 1 < render_count THEN G_VERT ELSE G_BLANK,
                              G_BLANK)]
        node == IF node_lane < Len(init)
                THEN [init EXCEPT ![node_lane + 1].left = graph_symbol(entry),
                                  ![node_lane + 1].kind_left = NodeKind(entry)]
                ELSE init
        ends == split_endpoints \cup converge_endpoints
        draw == ends # {} /\ SetMax(ends) > node_lane /\ node_lane < Len(node)
        target == SetMax(ends)
        horiz == [c \in 1..lane_count |->
                    IF c - 1 = node_lane
                    THEN [node[c] EXCEPT !.right = G_HORIZ]
                    ELSE IF c - 1 > node_lane /\ c - 1 <= target
                    THEN [node[c] EXCEPT
                            !.left = IF c - 1 < render_count
                                     THEN G_CROSS ELSE G_HORIZ,
                            !.right = IF c - 1 = target
                                      THEN G_BLANK ELSE G_HORIZ]
                    ELSE node[c]]
        split == [c \in 1..lane_count |->
                    IF c - 1 \in split_endpoints
                    THEN [horiz[c] EXCEPT !.left = G_SPLIT] ELSE horiz[c]]
        conv == [c \in 1..lane_count |->
                    IF c - 1 \in converge_endpoints
                    THEN [split[c] EXCEPT !.left = G_CONVERGE] ELSE split[c]]
    IN IF draw THEN conv ELSE node

\* One iteration of `for entry in entries` (graph.rs 64-219): the lanes after
\* the record and its row.
LayoutStep(entries, lanes, entry) ==
    LET cid == entry.commit_id_full
        node_lane == NodeLane(lanes, cid)
        located == LanesWithNode(lanes, cid)
        active_lane_count_for_render == Len(located)
        dup_lanes_pre_insert == DupLanesPreInsert(located, node_lane, cid)
        parents == SliceParents(entries, entry)
        split_count == SplitCount(parents)
        updated == UpdateLanes(located, node_lane, parents)
        converge_endpoints == ConvergeEndpoints(dup_lanes_pre_insert, split_count)
        final == RemoveConverged(updated, converge_endpoints)
        active_lane_count == Len(final)
        split_endpoints == SplitEndpoints(node_lane, split_count)
        lane_count == LaneCount(active_lane_count, node_lane, split_endpoints,
                                converge_endpoints)
    IN [lanes |-> final,
        row |-> [cells |-> RenderCells(entry, node_lane,
                                       active_lane_count_for_render, lane_count,
                                       split_endpoints, converge_endpoints),
                 node_lane |-> node_lane,
                 active_lane_count |-> active_lane_count]]

RECURSIVE LayoutRun(_, _, _, _)
LayoutRun(entries, lanes, rs, i) ==
    IF i > Len(entries) THEN rs
    ELSE LET st == LayoutStep(entries, lanes, entries[i])
         IN LayoutRun(entries, st.lanes, Append(rs, st.row), i + 1)

build_graph_rows(entries) == LayoutRun(entries, <<>>, <<>>, 1)

\* render_graph_row_plain (graph.rs 225-232): left and right glyph of every
\* cell, trailing blanks trimmed; a string is modelled as its glyph sequence.
RECURSIVE TrimEnd(_)
TrimEnd(s) ==
    IF Len(s) > 0 /\ s[Len(s)] = G_BLANK THEN TrimEnd(SubSeq(s, 1, Len(s) - 1))
    ELSE s

RECURSIVE CellGlyphs(_, _)
CellGlyphs(cells, k) ==
    IF k > Len(cells) THEN <<>>
    ELSE <<cells[k].left, cells[k].right>> \o CellGlyphs(cells, k + 1)

render_graph_row_plain(row) == TrimEnd(CellGlyphs(row.cells, 1))

rows_plain(entries) ==
    LET rs == build_graph_rows(entries)
    IN [i \in 1..Len(rs) |-> render_graph_row_plain(rs[i])]


(***************************************************************************)
(* Input batches.  The code compares ids only for equality, so a batch is  *)
(* generated up to renaming: record i takes an id already used or the next *)
(* unused name.  Outside is an id no record has: a parent outside the      *)
(* window.                                                                 *)
(***************************************************************************)
IdNames == <<"A", "B", "C", "D", "E", "F", "G", "H">>

Outside == "Z"

NumDistinct(p) == Cardinality({p[i] : i \in 1..Len(p)})

RECURSIVE IdPatterns(_)
IdPatterns(n) ==
    IF n = 0 THEN {<<>>}
    ELSE UNION {{Append(p, v) : v \in 1..(NumDistinct(p) + 1)} :
                    p \in IdPatterns(n - 1)}

ParentLists(targets, m) == UNION {[1..l -> targets] : l \in 0..m}

Weight(entry) ==
    Len(entry.parent_commit_ids)
    + (IF entry.is_working_copy THEN 1 ELSE 0)
    + (IF entry.is_immutable THEN 1 ELSE 0)

\* The records with the given id whose weight is exactly w.
RecordsOfWeight(id, targets, w) ==
    {r \in {LogEntry(id, ps, wc, imm) :
                ps \in ParentLists(targets, IF w < MaxParents THEN w ELSE MaxParents),
                wc \in BOOLEAN, imm \in BOOLEAN} :
        Weight(r) = w}

\* Every sequence made of a first element of S and a rest of T.
Prepend(S, T) == {<<r>> \o rest : r \in S, rest \in T}

\* The ways to spend at most budget on n records: the weight of each.
WeightVectors(n, budget) ==
    {ws \in [1..n -> 0..budget] :
        LET sum[i \in 0..n] == IF i = 0 THEN 0 ELSE sum[i - 1] + ws[i]
        IN sum[n] <= budget}

\* The batches with the ids and the weights given, from position i on.
RECURSIVE Fill(_, _, _)
Fill(ids, ws, i) ==
    IF i > Len(ids) THEN {<<>>}
    ELSE LET targets == {IdNames[ids[k]] : k \in 1..Len(ids)} \cup {Outside}
             firsts == RecordsOfWeight(IdNames[ids[i]], targets, ws[i])
             rests == Fill(ids, ws, i + 1)
         IN Prepend(firsts, rests)

\* records is a generated batch: at most MaxLen records of total weight at
\* most MaxWeight.
Generated(batch) ==
    \E n \in 0..MaxLen :
        \E ids \in {p \in IdPatterns(n) : n - NumDistinct(p) <= MaxWeight} :
            \E ws \in WeightVectors(n, MaxWeight - (n - NumDistinct(ids))) :
                batch \in Fill(ids, ws, 1)

\* The batches of the unit tests of log.rs and graph.rs.
Plain(id, parents) == LogEntry(id, parents, FALSE, FALSE)

\* tests::graph_linear.
LinearChain == <<Plain("A", <<"B">>), Plain("B", <<"C">>), Plain("C", <<>>)>>

ScrambledChain ==
    <<Plain("B", <<"C">>), Plain("A", <<"B">>), Plain("D", <<>>),
      Plain("C", <<"D">>)>>

BranchAndConverge ==
    <<Plain("A", <<"B">>), Plain("C", <<"B">>), Plain("B", <<"D">>),
      Plain("D", <<>>)>>

MergeAndConverge ==
    <<Plain("M", <<"P1", "P2">>), Plain("P1", <<"R">>), Plain("P2", <<"R">>),
      Plain("R", <<"T">>), Plain("T", <<>>)>>

MergeWithChild ==
    <<Plain("A", <<"M">>), Plain("M", <<"P1", "P2">>), Plain("P1", <<"R">>),
      Plain("P2", <<"R">>), Plain("R", <<>>)>>

CrossingConverge ==
    <<Plain("A", <<"B">>), Plain("D", <<"X">>), Plain("C", <<"B">>),
      Plain("B", <<"R">>), Plain("X", <<>>), Plain("R", <<>>)>>

SiblingHeads ==
    <<Plain("p", <<"mpkx", "o">>), LogEntry("y", <<"o">>, TRUE, FALSE),
      Plain("o", <<"mpkx">>), Plain("mpkx", <<>>)>>

SiblingHeadsSimple ==
    <<Plain("p", <<"o">>), LogEntry("y", <<"o">>, TRUE, FALSE),
      Plain("o", <<>>)>>

TestBatches ==
    {LinearChain, ScrambledChain, BranchAndConverge, MergeAndConverge,
     MergeWithChild, CrossingConverge, SiblingHeads, SiblingHeadsSimple}

\* A chain of four records supplied child-first: ScrambledChain once
\* sequenced.
ChainOfFour ==
    <<Plain("A", <<"B">>), Plain("B", <<"C">>), Plain("C", <<"D">>),
      Plain("D", <<>>)>>

\* A merge of two parents that converge on a record with no parent in the
\* batch: tests::graph_merge_and_converge without its last record T.
MergeAndConvergeAtRoot ==
    <<Plain("M", <<"P1", "P2">>), Plain("P1", <<"R">>), Plain("P2", <<"R">>),
      Plain("R", <<>>)>>

\* Three children of B supplied around a child of X, B a merge of three
\* parents: when B is reached the lanes are [B, B, X, B], and its connector
\* runs past the lanes that were open before the row.
WideConverge ==
    <<Plain("C3", <<"B">>), Plain("D", <<"X">>), Plain("C2", <<"B">>),
      Plain("C1", <<"B">>), Plain("B", <<"P1", "P2", "P3">>),
      Plain("X", <<>>), Plain("P1", <<>>), Plain("P2", <<>>),
      Plain("P3", <<>>)>>

\* A child of X, then two children of R, then R and X, neither with a
\* parent in the batch: when R is reached the lanes are [R, R, X].
ConvergeAtRoot ==
    <<Plain("C", <<"X">>), Plain("B", <<"R">>), Plain("A", <<"R">>),
      Plain("R", <<>>), Plain("X", <<>>)>>

\* A head, then a merge whose first listed parent is outside the batch and
\* whose other two parents are in it.
MergeAtWindowEdge ==
    <<Plain("H", <<"P2">>), Plain("M", <<"Z", "P1", "P2">>),
      Plain("P1", <<>>), Plain("P2", <<>>)>>

\* Two merges of the same two parents: the second is a head opened in front
\* of the lanes of the first, and B is then held by two lanes right of lane 0.
DoubleMerge ==
    <<Plain("M", <<"X", "B">>), Plain("N", <<"X", "B">>),
      Plain("B", <<"X">>), Plain("X", <<>>)>>

ExtraBatches ==
    {ChainOfFour, MergeAndConvergeAtRoot, WideConverge, ConvergeAtRoot,
     MergeAtWindowEdge, DoubleMerge}

(***************************************************************************)
(* One call of the pipeline, step by step: the records of a fetch are      *)
(* sequenced (fetch_log, log.rs 83-84) and laid out (App::new, app.rs      *)
(* 181), or laid out as they are (the tests of graph.rs).                  *)
(***************************************************************************)
VARIABLES
    pc,            \* where the run stands
    records,       \* the batch supplied
    child_count,   \* reorder_entries_for_graph: child_count
    heap,          \* reorder_entries_for_graph: heap
    emitted,       \* reorder_entries_for_graph: emitted
    order,         \* original indices of `result`, in order
    result,        \* reorder_entries_for_graph: the Vec returned
    slice,         \* build_graph_rows: entries
    active_lanes,  \* build_graph_rows: active_lanes
    rows,          \* build_graph_rows: rows
    entries,            \* App.entries
    graph_rows,         \* App.graph_rows
    selected,           \* App.selected
    log_limit,          \* App.log_limit: <<>> is None, <<n>> is Some(n)
    has_more_entries,   \* App.has_more_entries
    is_loading_more,    \* App.is_loading_more
    pending_load_more,  \* App.pending_load_more
    last_call,          \* the last App operation and how it ended
    fetched             \* the records the last fetch parsed, before sequencing

runvars == <<pc, records, child_count, heap, emitted, order, result, slice,
             active_lanes, rows>>

appvars == <<entries, graph_rows, selected, log_limit, has_more_entries,
             is_loading_more, pending_load_more, last_call, fetched>>

vars == <<runvars, appvars>>

\* No App is running.
NoApp ==
    /\ entries = <<>>
    /\ graph_rows = <<>>
    /\ selected = 0
    /\ log_limit = <<>>
    /\ has_more_entries = FALSE
    /\ is_loading_more = FALSE
    /\ pending_load_more = FALSE
    /\ last_call = "none"
    /\ fetched = <<>>

\* No step-by-step run is under way.
NoRun ==
    /\ pc = "app"
    /\ records = <<>>
    /\ child_count = <<>>
    /\ heap = {}
    /\ emitted = {}
    /\ order = <<>>
    /\ result = <<>>
    /\ slice = <<>>
    /\ active_lanes = <<>>
    /\ rows = <<>>

Init ==
    /\ \/ Generated(records)
       \/ records \in TestBatches
       \/ records \in ExtraBatches
    /\ pc = "fetched"
    /\ child_count = <<>>
    /\ heap = {}
    /\ emitted = {}
    /\ order = <<>>
    /\ result = <<>>
    /\ slice = <<>>
    /\ active_lanes = <<>>
    /\ rows = <<>>
    /\ NoApp

\* log.rs 165-205: the early return, or the tables and the seeded heap.
ReorderBegin ==
    /\ pc = "fetched"
    /\ IF Len(records) <= 1
       THEN /\ pc' = "sequenced"
            /\ order' = [i \in 1..Len(records) |-> i - 1]
            /\ result' = records
            /\ UNCHANGED <<child_count, heap, emitted>>
       ELSE /\ pc' = "kahn"
            /\ child_count' = KahnInit(records).child_count
            /\ heap' = KahnInit(records).heap
            /\ emitted' = KahnInit(records).emitted
            /\ order' = KahnInit(records).order
            /\ UNCHANGED result
    /\ UNCHANGED <<records, slice, active_lanes, rows>>
    /\ UNCHANGED appvars

\* log.rs 211-236: one pop.
KahnStep ==
    /\ pc = "kahn"
    /\ heap # {}
    /\ LET st == KahnPop(records, [child_count |-> child_count, heap |-> heap,
                                   emitted |-> emitted, order |-> order])
       IN /\ child_count' = st.child_count
          /\ heap' = st.heap
          /\ emitted' = st.emitted
          /\ order' = st.order
    /\ UNCHANGED <<pc, records, result, slice, active_lanes, rows>>
    /\ UNCHANGED appvars

\* log.rs 238-243: the heap is empty; append what was not emitted, return.
ReorderEnd ==
    /\ pc = "kahn"
    /\ heap = {}
    /\ order' = order \o Leftover(records, emitted)
    /\ result' = Pick(records, order')
    /\ pc' = "sequenced"
    /\ UNCHANGED <<records, child_count, heap, emitted, slice, active_lanes, rows>>
    /\ UNCHANGED appvars

\* graph.rs 56-62 on the sequenced batch.
LayoutSequenced ==
    /\ pc = "sequenced"
    /\ slice' = result
    /\ active_lanes' = <<>>
    /\ rows' = <<>>
    /\ pc' = "layout"
    /\ UNCHANGED <<records, child_count, heap, emitted, order, result>>
    /\ UNCHANGED appvars

\* graph.rs 56-62 on the batch as supplied.
LayoutDirect ==
    /\ pc = "fetched"
    /\ slice' = records
    /\ active_lanes' = <<>>
    /\ rows' = <<>>
    /\ pc' = "layout_direct"
    /\ UNCHANGED <<records, child_count, heap, emitted, order, result>>
    /\ UNCHANGED appvars

InLayout == pc \in {"layout", "layout_direct"}

\* graph.rs 64-219: one record.
LayoutRow ==
    /\ InLayout
    /\ Len(rows) < Len(slice)
    /\ LET st == LayoutStep(slice, active_lanes, slice[Len(rows) + 1])
       IN /\ active_lanes' = st.lanes
          /\ rows' = Append(rows, st.row)
    /\ UNCHANGED <<pc, records, child_count, heap, emitted, order, result, slice>>
    /\ UNCHANGED appvars

\* graph.rs 221: every record has its row.
LayoutEnd ==
    /\ InLayout
    /\ Len(rows) = Len(slice)
    /\ pc' = IF pc = "layout" THEN "done" ELSE "done_direct"
    /\ UNCHANGED <<records, child_count, heap, emitted, order, result, slice,
                   active_lanes, rows>>
    /\ UNCHANGED appvars

Next ==
    \/ ReorderBegin
    \/ KahnStep
    \/ ReorderEnd
    \/ LayoutSequenced
    \/ LayoutDirect
    \/ LayoutRow
    \/ LayoutEnd

Spec == Init /\ [][Next]_vars

\* Both functions are straight-line loops: a run that can take a step takes
\* it.
FairSpec == Spec /\ WF_vars(Next)

(***************************************************************************)
(* The App (app.rs): the log it holds and the operations that replace or   *)
(* extend it.  A fetch is the runner's answer: an error, or the records    *)
(* parsed from its output, at most `-n` of them.                           *)
(***************************************************************************)
\* app.rs 135.
DEFAULT_BATCH_SIZE == 500

\* app.rs 138.
LOAD_MORE_THRESHOLD == 50

\* The page size handle_log_keys passes to page_down and page_up.
PAGE_SIZE == 10

None == <<>>

Some(n) == <<n>>

\* self.log_limit.unwrap_or(DEFAULT_BATCH_SIZE), app.rs 296.
BatchSize(limit) == IF limit = None THEN DEFAULT_BATCH_SIZE ELSE limit[1]

\* Variant: the parsed records handed on as they came.
fetch_log_unsequenced(parsed) == parsed

\* fetch_log / fetch_log_after on the parsed output (log.rs 83-84, 116-117).
fetch_log(parsed) == reorder_entries_for_graph(parsed)

\* The ids of the repository an App run reads.
RepoIds == {"A", "B", "C"}

\* The records a fetch of an App run may parse.
RepoRecords ==
    {r \in {LogEntry(id, ps, wc, FALSE) :
                id \in RepoIds,
                ps \in ParentLists(RepoIds, IF MaxFetchWeight < MaxParents
                                            THEN MaxFetchWeight ELSE MaxParents),
                wc \in BOOLEAN} :
        Weight(r) <= MaxFetchWeight}

RECURSIVE TotalWeight(_)
TotalWeight(batch) ==
    IF batch = <<>> THEN 0 ELSE Weight(Head(batch)) + TotalWeight(Tail(batch))

\* What the runner may answer to a fetch asking for at most n records.
Fetches(n) ==
    {b \in UNION {[1..l -> RepoRecords] : l \in 0..(IF n < MaxFetch THEN n ELSE MaxFetch)} :
        TotalWeight(b) <= MaxFetchWeight}

\* The limits a run may be started with: --all, or -n with a small count.
Limits == {None} \cup {Some(n) : n \in 1..MaxFetch}

\* main.rs 50-63: fetch_log, App::new (app.rs 180-201), set_log_limit
\* (app.rs 204-212).
AppInit ==
    /\ NoRun
    /\ log_limit \in Limits
    /\ fetched \in Fetches(BatchSize(log_limit))
    /\ entries = fetch_log(fetched)
    /\ graph_rows = build_graph_rows(entries)
    /\ selected = 0
    /\ has_more_entries = IF log_limit = None THEN FALSE
                          ELSE Len(entries) >= log_limit[1]
    /\ is_loading_more = FALSE
    /\ pending_load_more = FALSE
    /\ last_call = "new"

\* The event loop is still running (an error leaves it, main.rs 96-97, 129).
Running == last_call \notin {"load_more_err", "refresh_err"}

\* app.rs 262-277.
should_load_more ==
    /\ pending_load_more
    /\ ~(log_limit = None \/ ~has_more_entries \/ is_loading_more)
    /\ LET entries_from_end ==
               IF Len(entries) >= selected THEN Len(entries) - selected ELSE 0
       IN entries_from_end <= LOAD_MORE_THRESHOLD

\* Key 'j' in the log view (main.rs 152-155, 230-232): select_next (app.rs
\* 215-219) and request_load_more_check (app.rs 256-258).
KeyDown ==
    /\ Running
    /\ ~is_loading_more
    /\ selected' = IF Len(entries) # 0 /\ selected < Len(entries) - 1
                   THEN selected + 1 ELSE selected
    /\ pending_load_more' = TRUE
    /\ last_call' = "key"
    /\ UNCHANGED <<entries, graph_rows, log_limit, has_more_entries,
                   is_loading_more, fetched>>
    /\ UNCHANGED runvars

\* Key 'k' in the log view (main.rs 156-158): select_previous (app.rs
\* 221-225); no load-more check is requested.
KeyUp ==
    /\ Running
    /\ ~is_loading_more
    /\ selected' = IF selected > 0 THEN selected - 1 ELSE selected
    /\ last_call' = "key"
    /\ UNCHANGED <<entries, graph_rows, log_limit, has_more_entries,
                   is_loading_more, pending_load_more, fetched>>
    /\ UNCHANGED runvars

\* Key 'g' in the log view (main.rs 159-161): select_first (app.rs 228-230).
KeyHome ==
    /\ Running
    /\ ~is_loading_more
    /\ selected' = 0
    /\ last_call' = "key"
    /\ UNCHANGED <<entries, graph_rows, log_limit, has_more_entries,
                   is_loading_more, pending_load_more, fetched>>
    /\ UNCHANGED runvars

\* Key 'G' in the log view (main.rs 162-165): select_last (app.rs 233-237)
\* and request_load_more_check.
KeyEnd ==
    /\ Running
    /\ ~is_loading_more
    /\ selected' = IF Len(entries) # 0 THEN Len(entries) - 1 ELSE selected
    /\ pending_load_more' = TRUE
    /\ last_call' = "key"
    /\ UNCHANGED <<entries, graph_rows, log_limit, has_more_entries,
                   is_loading_more, fetched>>
    /\ UNCHANGED runvars

\* Ctrl-d and PageDown in the log view (main.rs 169-172, 176-179):
\* page_down(10) (app.rs 240-246) and request_load_more_check.
KeyPageDown ==
    /\ Running
    /\ ~is_loading_more
    /\ selected' = IF Len(entries) = 0 THEN selected
                   ELSE IF selected + PAGE_SIZE < Len(entries) - 1
                        THEN selected + PAGE_SIZE ELSE Len(entries) - 1
    /\ pending_load_more' = TRUE
    /\ last_call' = "key"
    /\ UNCHANGED <<entries, graph_rows, log_limit, has_more_entries,
                   is_loading_more, fetched>>
    /\ UNCHANGED runvars

\* Ctrl-u and PageUp in the log view (main.rs 173-175, 180-182): page_up(10)
\* (app.rs 249-251), a saturating subtraction.
KeyPageUp ==
    /\ Running
    /\ ~is_loading_more
    /\ selected' = IF selected >= PAGE_SIZE THEN selected - PAGE_SIZE ELSE 0
    /\ last_call' = "key"
    /\ UNCHANGED <<entries, graph_rows, log_limit, has_more_entries,
                   is_loading_more, pending_load_more, fetched>>
    /\ UNCHANGED runvars

\* main.rs 89-90: start_loading (app.rs 280-283).
StartLoading ==
    /\ Running
    /\ should_load_more
    /\ is_loading_more' = TRUE
    /\ pending_load_more' = FALSE
    /\ last_call' = "start_loading"
    /\ UNCHANGED <<entries, graph_rows, selected, log_limit, has_more_entries,
                   fetched>>
    /\ UNCHANGED runvars

\* Variant: the new page is appended and the rows are not rebuilt.
LoadMoreOkStaleRows ==
    /\ Running
    /\ is_loading_more
    /\ IF Len(entries) = 0
       THEN /\ is_loading_more' = FALSE
            /\ last_call' = "load_more_false"
            /\ UNCHANGED <<entries, graph_rows, has_more_entries, fetched>>
       ELSE /\ fetched' \in Fetches(BatchSize(log_limit))
            /\ Len(entries) + Len(fetched') <= MaxEntries
            /\ LET batch_size == BatchSize(log_limit)
                   additional == fetch_log(fetched')
               IN /\ is_loading_more' = FALSE
                  /\ IF Len(additional) = 0
                     THEN /\ has_more_entries' = FALSE
                          /\ last_call' = "load_more_false"
                          /\ UNCHANGED <<entries, graph_rows>>
                     ELSE /\ has_more_entries' =
                                IF Len(additional) < batch_size
                                THEN FALSE ELSE has_more_entries
                          /\ entries' = entries \o additional
                          /\ UNCHANGED graph_rows
                          /\ last_call' = "load_more_true"
    /\ UNCHANGED <<selected, log_limit, pending_load_more>>
    /\ UNCHANGED runvars

\* load_more_entries (app.rs 287-314) when the fetch succeeds, and when there
\* is no last entry to anchor it.
LoadMoreOk ==
    /\ Running
    /\ is_loading_more
    /\ IF Len(entries) = 0
       THEN /\ is_loading_more' = FALSE
            /\ last_call' = "load_more_false"
            /\ UNCHANGED <<entries, graph_rows, has_more_entries, fetched>>
       ELSE /\ fetched' \in Fetches(BatchSize(log_limit))
            /\ Len(entries) + Len(fetched') <= MaxEntries
            /\ LET batch_size == BatchSize(log_limit)
                   additional == fetch_log(fetched')
               IN /\ is_loading_more' = FALSE
                  /\ IF Len(additional) = 0
                     THEN /\ has_more_entries' = FALSE
                          /\ last_call' = "load_more_false"
                          /\ UNCHANGED <<entries, graph_rows>>
                     ELSE /\ has_more_entries' =
                                IF Len(additional) < batch_size
                                THEN FALSE ELSE has_more_entries
                          /\ entries' = entries \o additional
                          /\ graph_rows' = build_graph_rows(entries')
                          /\ last_call' = "load_more_true"
    /\ UNCHANGED <<selected, log_limit, pending_load_more>>
    /\ UNCHANGED runvars

\* load_more_entries when fetch_log_after fails (app.rs 297): the `?`
\* returns before anything is written, and the event loop ends.
LoadMoreErr ==
    /\ Running
    /\ is_loading_more
    /\ Len(entries) # 0
    /\ last_call' = "load_more_err"
    /\ UNCHANGED <<entries, graph_rows, selected, log_limit, has_more_entries,
                   is_loading_more, pending_load_more, fetched>>
    /\ UNCHANGED runvars

\* refresh_log (app.rs 382-390) when the fetch succeeds.
RefreshOk ==
    /\ Running
    /\ ~is_loading_more
    /\ fetched' \in Fetches(BatchSize(log_limit))
    /\ entries' = fetch_log(fetched')
    /\ graph_rows' = build_graph_rows(entries')
    /\ selected' = IF Len(entries') # 0 /\ selected >= Len(entries')
                   THEN Len(entries') - 1 ELSE selected
    /\ last_call' = "refresh_ok"
    /\ UNCHANGED <<log_limit, has_more_entries, is_loading_more,
                   pending_load_more>>
    /\ UNCHANGED runvars

\* refresh_log when fetch_log fails (app.rs 383): nothing is written.
RefreshErr ==
    /\ Running
    /\ ~is_loading_more
    /\ last_call' = "refresh_err"
    /\ UNCHANGED <<entries, graph_rows, selected, log_limit, has_more_entries,
                   is_loading_more, pending_load_more, fetched>>
    /\ UNCHANGED runvars

AppNext ==
    \/ KeyDown
    \/ KeyUp
    \/ KeyHome
    \/ KeyEnd
    \/ KeyPageDown
    \/ KeyPageUp
    \/ StartLoading
    \/ LoadMoreOk
    \/ LoadMoreErr
    \/ RefreshOk
    \/ RefreshErr

AppSpec == AppInit /\ [][AppNext]_vars


(***************************************************************************)
(* Vocabulary of the properties.                                           *)
(***************************************************************************)
IdsOf(es) == [i \in 1..Len(es) |-> es[i].commit_id_full]

RangeOf(s) == {s[i] : i \in 1..Len(s)}

DistinctIds(es) ==
    \A i, j \in 1..Len(es) :
        es[i].commit_id_full = es[j].commit_id_full => i = j

\* Record j is a parent of record i: i lists j's id.
IsParentOf(es, j, i) ==
    es[j].commit_id_full \in RangeOf(es[i].parent_commit_ids)

\* The pairs <<i, j>> reachable from i by one or more parent references.
RECURSIVE Closure(_, _)
Closure(R, n) ==
    LET step == R \cup {<<a, c>> \in (1..n) \X (1..n) :
                            \E b \in 1..n : <<a, b>> \in R /\ <<b, c>> \in R}
    IN IF step = R THEN R ELSE Closure(step, n)

Ancestry(es) ==
    Closure({<<i, j>> \in (1..Len(es)) \X (1..Len(es)) :
                IsParentOf(es, j, i)}, Len(es))

\* No record is its own ancestor.
IsDag(es) == \A i \in 1..Len(es) : <<i, i>> \notin Ancestry(es)

\* The sequencer has just returned: `result` is its output.
Returned == pc = "sequenced"

\* The sequencer has returned, now or earlier in the run.
Sequenced == pc \in {"sequenced", "layout", "done"}

WorkingCopies(es) == {i \in 1..Len(es) : es[i].is_working_copy}

PlainRows(rs) == [i \in 1..Len(rs) |-> render_graph_row_plain(rs[i])]

(***************************************************************************)
(* Properties.                                                             *)
(***************************************************************************)
\* C1: for a batch that is a DAG with distinct ids, every record of the
\* sequencer's output stands strictly before each of its parents present in
\* the batch; the chain A->B->C->D supplied as [B, A, D, C] comes out as
\* [A, B, C, D].
C1_ChildrenBeforeParents ==
    Returned =>
        /\ (DistinctIds(records) /\ IsDag(records)) =>
              \A i, j \in 1..Len(result) : IsParentOf(result, j, i) => i < j
        /\ records = ScrambledChain => IdsOf(result) = <<"A", "B", "C", "D">>

\* C1 witness: a DAG batch with distinct ids in which some parent was
\* supplied before its child has been sequenced.
C1_Witness ==
    /\ pc = "sequenced"
    /\ DistinctIds(records) /\ IsDag(records)
    /\ \E i, j \in 1..Len(records) : IsParentOf(records, i, j) /\ i < j

\* C2: the sequencer returns a permutation of its input: every original
\* index occurs exactly once, the popped records first and the never-popped
\* ones after them in their original relative order; a batch of at most one
\* record is returned as it is.
C2_Permutation ==
    Returned =>
        LET n == Len(records)
            k == Cardinality(emitted)
        IN /\ Len(order) = n
           /\ \A idx \in 0..(n - 1) :
                 Cardinality({p \in 1..n : order[p] = idx}) = 1
           /\ result = Pick(records, order)
           /\ \A p \in 1..n : p <= k <=> order[p] \in emitted
           /\ \A p, q \in (k + 1)..n : p < q => order[p] < order[q]
           /\ n <= 1 => result = records

\* C2 witness: some records were popped and at least two were never popped.
C2_Witness ==
    /\ pc = "sequenced"
    /\ Cardinality(emitted) >= 1
    /\ Len(records) - Cardinality(emitted) >= 2

\* C3: when exactly one record is flagged working-copy and no record of the
\* batch names it as a parent, it is the first record of the output.
C3_WorkingCopyFirst ==
    Returned =>
        \A w \in WorkingCopies(records) :
            (/\ WorkingCopies(records) = {w}
             /\ \A j \in 1..Len(records) : ~IsParentOf(records, w, j))
            => (order[1] = w - 1 /\ result[1] = records[w])

\* C3 witness: the only working-copy record is a head supplied after two
\* other records, and the batch has been sequenced.
C3_Witness ==
    /\ pc = "sequenced"
    /\ \E w \in WorkingCopies(records) :
          /\ WorkingCopies(records) = {w}
          /\ w >= 3
          /\ \A j \in 1..Len(records) : ~IsParentOf(records, w, j)
          /\ \A j \in 1..Len(records) : ~IsParentOf(records, 1, j)

\* C4 as stated: for every batch, sequencing the sequencer's output again
\* leaves its order unchanged.
C4_IdempotentEveryBatch ==
    Returned => reorder_entries_for_graph(result) = result

\* C4 amended: for every batch whose records have distinct ids (cyclic
\* batches included), sequencing the sequencer's output again leaves its
\* order unchanged.
C4_IdempotentDistinctIds ==
    (Returned /\ DistinctIds(records)) =>
        reorder_entries_for_graph(result) = result

\* C4 witness: a batch with distinct ids that the sequencer had to reorder
\* has been sequenced.
C4_Witness ==
    /\ pc = "sequenced"
    /\ DistinctIds(records)
    /\ Len(records) >= 3
    /\ result # records

\* C5: laying out the sequenced batch gives exactly one row per record, and
\* row i is the row of the i-th record of the sequenced batch: its node
\* half-cell carries that record's glyph and flags.
C5_OneRowPerRecord ==
    /\ pc = "layout" => Len(rows) <= Len(records)
    /\ pc = "done" =>
          /\ Len(rows) = Len(records)
          /\ \A i \in 1..Len(rows) :
                LET cell == rows[i].cells[rows[i].node_lane + 1]
                IN /\ cell.left = graph_symbol(result[i])
                   /\ cell.kind_left = NodeKind(result[i])

\* C5 witness: a reordered batch of at least three records, not all with
\* the same flags, has been laid out.
C5_Witness ==
    /\ pc = "done"
    /\ Len(records) >= 3
    /\ result # records
    /\ \E i, j \in 1..Len(result) : NodeKind(result[i]) # NodeKind(result[j])

\* C6 (as stated): after load_more_entries has appended a page, App.entries
\* is reorder_entries_for_graph of the whole concatenated list (the entries
\* held before followed by the records fetched) and App.graph_rows is
\* build_graph_rows of that list.
C6_WholeListResequenced ==
    [][last_call' = "load_more_true" =>
          /\ entries' = reorder_entries_for_graph(entries \o fetched')
          /\ graph_rows' = build_graph_rows(entries')]_vars

\* C6 (amended): after load_more_entries has appended a page, App.entries is
\* the entries held before, untouched, followed by reorder_entries_for_graph
\* of the fetched page alone, and App.graph_rows is build_graph_rows of the
\* whole of App.entries: only the layout is recomputed over the whole list.
C6_PageSequencedThenAppended ==
    [][last_call' = "load_more_true" =>
          /\ entries' = entries \o reorder_entries_for_graph(fetched')
          /\ fetched' # <<>>
          /\ graph_rows' = build_graph_rows(entries')]_vars

\* A page has been appended whose sequencing changed its order, and the
\* whole list is not in the order the sequencer would give it.
C6_Witness ==
    /\ last_call = "load_more_true"
    /\ reorder_entries_for_graph(fetched) # fetched
    /\ entries # reorder_entries_for_graph(entries)
    /\ graph_rows = build_graph_rows(entries)
    /\ Len(graph_rows) = Len(entries)

\* C7: the batch A->B, C->B, B->D, D supplied as [A, C, B, D] is sequenced
\* to [A, C, B, D] and laid out as "o", "o |", "o-J", "o".
C7_BranchAndConverge ==
    records = BranchAndConverge =>
        /\ Sequenced => IdsOf(result) = <<"A", "C", "B", "D">>
        /\ pc = "done" =>
              PlainRows(rows) =
                  << <<G_ORDINARY>>,
                     <<G_ORDINARY, G_BLANK, G_VERT>>,
                     <<G_ORDINARY, G_HORIZ, G_CONVERGE>>,
                     <<G_ORDINARY>> >>

\* C7 witness: the branch-and-converge batch has been sequenced and laid
\* out.
C7_Witness == records = BranchAndConverge /\ pc = "done" /\ Len(rows) = 4

\* C8: M->[P1, P2], P1->R, P2->R, R laid out in the order [M, P1, P2, R]
\* gives "o-7", "o |", "| o", "o-J": after M's row the first parent holds
\* M's lane and the second the lane to its right, and R's row closes that
\* lane; with R->T and T appended the rows are the same, followed by "o".
C8_MergeAndConverge ==
    LET expected == << <<G_ORDINARY, G_HORIZ, G_SPLIT>>,
                       <<G_ORDINARY, G_BLANK, G_VERT>>,
                       <<G_VERT, G_BLANK, G_ORDINARY>>,
                       <<G_ORDINARY, G_HORIZ, G_CONVERGE>> >>
    IN /\ (slice = MergeAndConvergeAtRoot /\ InLayout /\ Len(rows) = 1) =>
              active_lanes = <<"P1", "P2">>
       /\ (slice = MergeAndConvergeAtRoot /\ pc \in {"done", "done_direct"}) =>
              PlainRows(rows) = expected
       /\ (slice = MergeAndConverge /\ pc \in {"done", "done_direct"}) =>
              PlainRows(rows) = expected \o << <<G_ORDINARY>> >>

\* C8 witness: the merge-and-converge batch has been laid out as supplied.
C8_Witness == slice = MergeAndConvergeAtRoot /\ pc = "done_direct" /\ Len(rows) = 4

\* A chain supplied child-first: distinct ids, no flags, each record but the
\* last names the next as its sole parent, the last names no record.
IsChain(es) ==
    /\ Len(es) >= 1
    /\ DistinctIds(es)
    /\ \A i \in 1..Len(es) :
          /\ ~es[i].is_working_copy
          /\ ~es[i].is_immutable
          /\ IF i < Len(es)
             THEN es[i].parent_commit_ids = <<es[i + 1].commit_id_full>>
             ELSE \A p \in RangeOf(es[i].parent_commit_ids) :
                      ~InSlice(es, p)

\* C9: every row of a chain supplied child-first is a single cell at lane 0
\* that shows the ordinary node glyph and no connector.
C9_LinearChain ==
    (IsChain(slice) /\ (InLayout \/ pc \in {"done", "done_direct"})) =>
        \A i \in 1..Len(rows) :
            /\ rows[i].node_lane = 0
            /\ Len(rows[i].cells) = 1
            /\ rows[i].cells[1].left = G_ORDINARY
            /\ rows[i].cells[1].right = G_BLANK
            /\ render_graph_row_plain(rows[i]) = <<G_ORDINARY>>

\* C9 witness: the chain [A, B, C, D] has been laid out.
C9_Witness == slice = ChainOfFour /\ pc = "done_direct" /\ Len(rows) = 4

\* C10: for the sibling heads supplied as [P, Y, O, M] the sequencer yields
\* Y first and the first row of the sequenced layout is the lone glyph '@';
\* laid out as supplied, the first row is "o-7".
C10_SiblingHeads ==
    records = SiblingHeads =>
        /\ Sequenced => result[1].commit_id_full = "y"
        /\ pc = "done" =>
              /\ render_graph_row_plain(rows[1]) = <<G_WORKING_COPY>>
              /\ \A c \in 1..Len(rows[1].cells) :
                    /\ rows[1].cells[c].right = G_BLANK
                    /\ c # 1 => rows[1].cells[c].left = G_BLANK
        /\ pc = "done_direct" =>
              render_graph_row_plain(rows[1]) = <<G_ORDINARY, G_HORIZ, G_SPLIT>>

\* C10 witness: the sibling-heads batch has been sequenced and laid out.
C10_Witness == records = SiblingHeads /\ pc = "done" /\ Len(rows) = 4

(***************************************************************************)
(* Vocabulary for one step of the layout loop: the record being processed, *)
(* the lanes once it is located, its endpoints, and the row it produces.   *)
(***************************************************************************)
\* The layout loop is about to process a record.
AtRecord == InLayout /\ Len(rows) < Len(slice)

\* This step processes one record.
RowStep == InLayout /\ Len(rows') = Len(rows) + 1

StepEntry == slice[Len(rows) + 1]

StepCid == StepEntry.commit_id_full

StepNodeLane == NodeLane(active_lanes, StepCid)

StepLocated == LanesWithNode(active_lanes, StepCid)

StepParents == SliceParents(slice, StepEntry)

StepDups == DupLanesPreInsert(StepLocated, StepNodeLane, StepCid)

StepSplits == SplitEndpoints(StepNodeLane, SplitCount(StepParents))

StepConverges == ConvergeEndpoints(StepDups, SplitCount(StepParents))

\* The row the step appends.
NewRow == rows'[Len(rows')]

\* C11: in every row whose connector runs to an endpoint right of the node,
\* each column strictly between node_lane and the furthest endpoint that is
\* neither a split nor a converge endpoint shows the crossing glyph on its
\* left half if the lane was open when the row was drawn, and the plain
\* horizontal otherwise; with lanes [B, X, B] the row of B is "o-+-J".
C11_Crossing ==
    [][RowStep =>
          LET ends == StepSplits \cup StepConverges
          IN /\ ends # {} =>
                  \A c \in (StepNodeLane + 1)..(SetMax(ends) - 1) :
                      c \notin ends =>
                          NewRow.cells[c + 1].left =
                              IF c < Len(StepLocated) THEN G_CROSS ELSE G_HORIZ
             /\ (slice = CrossingConverge /\ active_lanes = <<"B", "X", "B">>) =>
                  render_graph_row_plain(NewRow) =
                      <<G_ORDINARY, G_HORIZ, G_CROSS, G_HORIZ, G_CONVERGE>>]_vars

\* C11 witness: the crossing batch has produced the row of B over the lanes
\* [B, X, B], with the crossing glyph over X's lane.
C11_Witness ==
    /\ slice = CrossingConverge
    /\ Len(rows) = 4
    /\ rows[4].cells[2].left = G_CROSS
    /\ rows[4].cells[3].left = G_CONVERGE
    /\ active_lanes = <<"R", "X">>

\* The index operations of one pop of the Kahn loop are in bounds (log.rs
\* 211-233): the popped index and every parent index address child_count and
\* entries_opt, and the entry unwrapped has not been taken before.
KahnPopInBounds ==
    LET n == Len(records)
        idx == HeapTop(heap).idx
    IN /\ idx \in 0..(n - 1)
       /\ idx \notin emitted =>
             /\ idx \notin RangeOf(order)
             /\ \A k \in 1..Len(records[idx + 1].parent_commit_ids) :
                   LET parent_idx ==
                           IdToIdx(records, records[idx + 1].parent_commit_ids[k])
                   IN parent_idx >= 0 => parent_idx \in DOMAIN child_count

\* The index operations of one layout step are in bounds (graph.rs 104-108):
\* the assignment active_lanes[node_lane] needs node_lane < len, and the k-th
\* insert at node_lane + 1 + k needs an index of at most the length then.
LayoutStepInBounds ==
    LET len == Len(StepLocated)
    IN /\ StepNodeLane >= 0
       /\ Len(StepParents) > 0 =>
             /\ StepNodeLane < len
             /\ \A k \in 0..(Len(StepParents) - 2) :
                   StepNodeLane + 1 + k <= len + k

\* Every cell and lane index a finished row refers to exists.
RowInBounds(row) ==
    /\ row.node_lane >= 0
    /\ row.node_lane < Len(row.cells)
    /\ row.active_lane_count <= Len(row.cells)

InBounds ==
    /\ (pc = "kahn" /\ heap # {}) => KahnPopInBounds
    /\ AtRecord => LayoutStepInBounds
    /\ \A i \in 1..Len(rows) : RowInBounds(rows[i])

Finished == pc \in {"done", "done_direct"}

\* C12: for every batch - cyclic, self-referencing, with duplicate ids, with
\* several working-copy flags, with parents before children - the sequencer
\* and the layout never index out of bounds and the run reaches its end with
\* one result record per input record and one row per laid-out record.
C12_Total ==
    /\ []InBounds
    /\ [](Sequenced => Len(result) = Len(records))
    /\ <>(Finished /\ Len(rows) = Len(slice))

\* C12 witness: a batch of three records with a repeated id and a cycle has
\* been sequenced and laid out.
C12_Witness ==
    /\ pc = "done"
    /\ Len(records) = 3
    /\ ~DistinctIds(records)
    /\ ~IsDag(records)
    /\ Cardinality(WorkingCopies(records)) >= 1
    /\ Len(rows) = 3

\* C13: the node column of every row shows, on its left half, '@' when the
\* record is flagged working-copy (whether or not it is flagged immutable),
\* the immutable glyph when it is flagged immutable only and the ordinary
\* glyph otherwise, and the three glyphs are mutually distinct.
C13_NodeGlyph ==
    /\ G_WORKING_COPY # G_IMMUTABLE
    /\ G_WORKING_COPY # G_ORDINARY
    /\ G_IMMUTABLE # G_ORDINARY
    /\ (InLayout \/ Finished) =>
          \A i \in 1..Len(rows) :
              LET shown == rows[i].cells[rows[i].node_lane + 1].left
              IN /\ slice[i].is_working_copy => shown = G_WORKING_COPY
                 /\ (~slice[i].is_working_copy /\ slice[i].is_immutable) =>
                        shown = G_IMMUTABLE
                 /\ (~slice[i].is_working_copy /\ ~slice[i].is_immutable) =>
                        shown = G_ORDINARY

\* C13 witness: a batch holding a record flagged both working-copy and
\* immutable, one flagged immutable only and one without flags has been
\* laid out.
C13_Witness ==
    /\ Finished
    /\ Len(rows) = Len(slice)
    /\ \E i, j, k \in 1..Len(slice) :
          /\ slice[i].is_working_copy /\ slice[i].is_immutable
          /\ ~slice[j].is_working_copy /\ slice[j].is_immutable
          /\ ~slice[k].is_working_copy /\ ~slice[k].is_immutable

\* A batch as the sequencer delivers a DAG: distinct ids, no record its own
\* ancestor, every record before each of its parents present in the batch.
SequencedDag(es) ==
    /\ DistinctIds(es)
    /\ IsDag(es)
    /\ \A i, j \in 1..Len(es) : IsParentOf(es, j, i) => i < j

\* The records of the slice already given their row.
Processed == 1..Len(rows)

\* C14: while a sequenced DAG batch is laid out, no lane holds the id of a
\* record that has already been processed: its own lane was overwritten or
\* removed and every duplicate lane holding its id was removed, also when
\* the record has no parent in the batch.
C14_ProcessedIdLeavesLanes ==
    ((InLayout \/ Finished) /\ SequencedDag(slice)) =>
        \A i \in Processed :
            slice[i].commit_id_full \notin RangeOf(active_lanes)

\* C14 witness: two children of a record without in-batch parent have been
\* laid out before it, and after its own row a lane still holds its id.
C14_Witness ==
    /\ InLayout
    /\ SequencedDag(slice)
    /\ Len(slice) = 3
    /\ Len(rows) = 3
    /\ SliceParents(slice, slice[3]) = <<>>
    /\ IsParentOf(slice, 3, 1) /\ IsParentOf(slice, 3, 2)
    /\ active_lanes = <<slice[3].commit_id_full>>
    /\ rows[3].active_lane_count = 1

\* The lanes of a sequence that hold another id than cid, in order.
OtherLanes(lanes, cid) == SelectSeq(lanes, LAMBDA x : x # cid)

\* The sequence without the n elements that follow its first a elements.
WithoutSlots(s, a, n) ==
    SubSeq(s, 1, a) \o SubSeq(s, a + n + 1, Len(s))

\* C15: a step of the layout over a DAG batch with distinct ids touches only
\* the record's own lane, the lanes inserted for its parents and the lanes
\* holding its own id: the lanes that held another id before the step are
\* all there after it, with the same ids in the same order.
C15_OtherLanesKept ==
    [][(RowStep /\ DistinctIds(slice) /\ IsDag(slice)) =>
          OtherLanes(WithoutSlots(active_lanes', StepNodeLane, Len(StepParents)),
                     StepCid)
              = OtherLanes(active_lanes, StepCid)]_vars

\* C15 witness: the record R of the batch [C, B, A, R, X] has been processed
\* over the lanes [R, R, X], and the lane of X, not yet processed, is gone.
C15_Witness ==
    /\ slice = ConvergeAtRoot
    /\ InLayout
    /\ Len(rows) = 4
    /\ active_lanes = <<"R">>

\* C16: while a sequenced DAG batch is laid out, a record that an earlier
\* record names as a parent is found in an open lane when its turn comes; a
\* fresh lane at index 0 is opened only for a record no earlier record names.
C16_NamedRecordHasLane ==
    (AtRecord /\ SequencedDag(slice)) =>
        ((\E j \in Processed : IsParentOf(slice, Len(rows) + 1, j))
            => LanePosition(active_lanes, StepCid) >= 0)

\* C16 witness: in the batch [C, B, A, R, X] the turn of X has come, C named
\* it as its parent, and no lane holds X.
C16_Witness ==
    /\ slice = ConvergeAtRoot
    /\ AtRecord
    /\ StepCid = "X"
    /\ IsParentOf(slice, 5, 1)
    /\ LanePosition(active_lanes, "X") = -1

\* C17: with c the lane count once the record's lane is located or opened,
\* k the number of its parents present in the batch and d the number of
\* other lanes holding its id, the row's active_lane_count is the length of
\* the lanes after the step, and that length is c + k - 1 - d.
C17_LaneCountAfterRow ==
    [][RowStep =>
          LET c == Len(StepLocated)
              k == Len(StepParents)
              d == Cardinality(StepDups)
          IN /\ NewRow.active_lane_count = Len(active_lanes')
             /\ Len(active_lanes') = c + k - 1 - d]_vars

\* C17 witness: the merge-and-converge batch [M, P1, P2, R] has been laid
\* out; R was processed over the lanes [R, R] (c = 2, k = 0, d = 1) and its
\* row reports one active lane.
C17_Witness ==
    /\ slice = MergeAndConvergeAtRoot
    /\ Len(rows) = 4
    /\ rows[4].node_lane = 0
    /\ rows[3].active_lane_count = 2
    /\ rows[4].active_lane_count = 1
    /\ Len(active_lanes) = 1

\* C18: at every step of the layout every lane holds the id of a record of
\* the batch; a parent id absent from the batch never occupies a lane.
C18_LanesHoldBatchIds ==
    (InLayout \/ Finished) =>
        \A k \in 1..Len(active_lanes) : InSlice(slice, active_lanes[k])

\* C18 witness: a record naming both a parent of the batch and a parent
\* outside it has been processed, and its in-batch parent holds a lane.
C18_Witness ==
    /\ InLayout
    /\ \E i \in Processed :
          /\ \E p \in RangeOf(slice[i].parent_commit_ids) : ~InSlice(slice, p)
          /\ \E p \in RangeOf(slice[i].parent_commit_ids) :
                InSlice(slice, p) /\ p \in RangeOf(active_lanes)

\* This step of the Kahn loop emits a record.
EmitStep == pc = "kahn" /\ pc' = "kahn" /\ Len(order') = Len(order) + 1

\* The original index (from 0) of the record the step emits.
EmittedIdx == order'[Len(order')]

\* Record idx is ready: not yet emitted, and every record of the batch that
\* lists its id as a parent has been emitted.
Ready(idx) ==
    /\ idx \notin emitted
    /\ \A j \in 0..(Len(records) - 1) :
          IsParentOf(records, idx + 1, j + 1) => j \in emitted

\* Record a is chosen before record b: flagged working-copy when b is not,
\* or equal on the flag and earlier in the input.
ChosenBefore(a, b) ==
    \/ records[a + 1].is_working_copy /\ ~records[b + 1].is_working_copy
    \/ /\ records[a + 1].is_working_copy = records[b + 1].is_working_copy
       /\ a < b

\* The step emits a ready record that is chosen before every other ready
\* record.
EmitsBestReady ==
    /\ Ready(EmittedIdx)
    /\ \A r \in 0..(Len(records) - 1) :
          (Ready(r) /\ r # EmittedIdx) => ChosenBefore(EmittedIdx, r)

\* C19 as stated: for every batch, each record the Kahn loop emits is a
\* ready record, a working-copy one before any unflagged one and, among
\* ready records equal on the flag, the one of smallest original index.
C19_BestReadyEveryBatch == [][EmitStep => EmitsBestReady]_vars

\* C19 amended: the same for every batch whose records have distinct ids,
\* whatever the number of working-copy flags and with cycles allowed.
C19_BestReadyDistinctIds ==
    [][(EmitStep /\ DistinctIds(records)) => EmitsBestReady]_vars

\* C19 witness: a batch of three records with distinct ids, two of them
\* flagged working-copy and one naming another as its parent, has been
\* emitted entirely by the loop, in another order than it was supplied.
C19_Witness ==
    /\ pc = "sequenced"
    /\ DistinctIds(records)
    /\ Cardinality(WorkingCopies(records)) >= 2
    /\ Len(records) = 3
    /\ Cardinality(emitted) = 3
    /\ order # <<0, 1, 2>>
    /\ \E i, j \in 1..3 : IsParentOf(records, j, i)

\* C20: right after the row of a record the lanes hold its parents present
\* in the batch, in listed order and without the absent ones, consecutively
\* from index node_lane; the lanes left of node_lane are untouched; a
\* record with no parent in the batch loses its lane: the lanes get shorter
\* and hold its id once less.
C20_ParentsTakeLanes ==
    [][RowStep =>
          LET k == Len(StepParents)
              nl == StepNodeLane
          IN /\ NewRow.node_lane = nl
             /\ SubSeq(active_lanes', 1, nl) = SubSeq(StepLocated, 1, nl)
             /\ k > 0 => SubSeq(active_lanes', nl + 1, nl + k) = StepParents
             /\ k = 0 =>
                   /\ Len(active_lanes') < Len(StepLocated)
                   /\ Occurrences(active_lanes', StepCid)
                          < Occurrences(StepLocated, StepCid)]_vars

\* C20 witness: the record processed last lists a parent outside the batch
\* and then two parents of the batch, and the lanes hold these two, in that
\* order, from its node lane on.
C20_Witness ==
    /\ InLayout
    /\ Len(rows) >= 1
    /\ LET entry == slice[Len(rows)]
           nl == rows[Len(rows)].node_lane
       IN /\ Len(entry.parent_commit_ids) = 3
          /\ ~InSlice(slice, entry.parent_commit_ids[1])
          /\ InSlice(slice, entry.parent_commit_ids[2])
          /\ InSlice(slice, entry.parent_commit_ids[3])
          /\ entry.parent_commit_ids[2] # entry.parent_commit_ids[3]
          /\ SubSeq(active_lanes, nl + 1, nl + 2) =
                 SubSeq(entry.parent_commit_ids, 2, 3)

\* C21: the node_lane of a row is the index of the leftmost lane holding
\* the record's id when some lane holds it, and the lanes are searched
\* without being changed; otherwise node_lane is 0, the id is opened at index
\* 0 with every existing lane one place further right, so that after the
\* parent update the lanes are the record's in-batch parents followed by all
\* the lanes there were.
C21_NodeLaneLeftmostOrOpened ==
    [][RowStep =>
          LET held == {i \in 0..(Len(active_lanes) - 1) :
                          active_lanes[i + 1] = StepCid}
          IN IF held # {}
             THEN /\ NewRow.node_lane \in held
                  /\ \A i \in held : NewRow.node_lane <= i
                  /\ StepLocated = active_lanes
             ELSE /\ NewRow.node_lane = 0
                  /\ StepLocated = <<StepCid>> \o active_lanes
                  /\ active_lanes' = StepParents \o active_lanes]_vars

\* C21 witness: the rows so far contain a record found in a lane right of
\* lane 0 while a lane further right held its id too, and another record
\* that no lane held, opened at lane 0 in front of an existing lane.
C21_Witness ==
    /\ InLayout
    /\ \E i, j \in 1..Len(rows) :
          /\ i # j
          /\ rows[i].node_lane >= 1
          /\ \E c \in (rows[i].node_lane + 2)..Len(rows[i].cells) :
                rows[i].cells[c].left = G_CONVERGE
          /\ rows[j].node_lane = 0
          /\ \A h \in 1..(j - 1) :
                \A q \in 1..Len(slice[h].parent_commit_ids) :
                    slice[h].parent_commit_ids[q] # slice[j].commit_id_full
          /\ Len(rows[j].cells) >= 2
          /\ rows[j].cells[2].left = G_VERT

\* C22: the number of cells of each row is the largest of the lane count
\* after the row's mutation (which is the row's active_lane_count), of
\* node_lane + 1, and of one past the furthest split or converge endpoint;
\* so a row has at least one cell, its node_lane indexes a cell, and it has
\* no fewer cells than active_lane_count.
C22_ColumnCount ==
    [][RowStep =>
          LET n == Len(NewRow.cells)
              candidates == {NewRow.active_lane_count, NewRow.node_lane + 1}
                            \cup {e + 1 : e \in StepSplits \cup StepConverges}
          IN /\ NewRow.active_lane_count = Len(active_lanes')
             /\ n = SetMax(candidates)
             /\ n >= 1
             /\ NewRow.node_lane < n
             /\ n >= NewRow.active_lane_count]_vars

\* C22 witness: among the rows so far one is as wide as it is only because
\* of its furthest endpoint, one only because of the lanes left after it,
\* and one only because of its node column.
C22_Witness ==
    /\ InLayout
    /\ \E i, j, h \in 1..Len(rows) :
          /\ Len(rows[i].cells) > rows[i].active_lane_count
          /\ Len(rows[i].cells) > rows[i].node_lane + 1
          /\ Len(rows[j].cells) = rows[j].active_lane_count
          /\ Len(rows[j].cells) > rows[j].node_lane + 1
          /\ \A c \in 1..Len(rows[j].cells) :
                rows[j].cells[c].left \notin {G_SPLIT, G_CONVERGE}
          /\ Len(rows[h].cells) = rows[h].node_lane + 1
          /\ Len(rows[h].cells) > rows[h].active_lane_count

\* The columns of the new row covered by its horizontal connector:
\* node_lane + 1 up to the furthest endpoint (graph.rs 173-185).
StepSpan ==
    LET ends == StepSplits \cup StepConverges
    IN IF ends = {} THEN {} ELSE (StepNodeLane + 1)..SetMax(ends)

\* In the new row every column other than the node column and outside the
\* connector's span shows the vertical glyph on its left half when its index
\* is below the lane count taken once the record is located, and a blank
\* otherwise.
OutsideSpanVertical ==
    \A c \in 0..(Len(NewRow.cells) - 1) :
        (c # NewRow.node_lane /\ c \notin StepSpan) =>
            NewRow.cells[c + 1].left =
                IF c < Len(StepLocated) THEN G_VERT ELSE G_BLANK

\* C23: in each row a column that is neither the node column nor inside the
\* horizontal span has the vertical glyph on its left half if its index is
\* smaller than the lane count taken after the record's lane was located or
\* opened, and a blank otherwise; and every lane that existed at that moment
\* has a cell in the row whose left glyph is not blank.
C23_ExistingLanesDrawn ==
    [][RowStep =>
          /\ OutsideSpanVertical
          /\ \A c \in 0..(Len(StepLocated) - 1) :
                /\ c < Len(NewRow.cells)
                /\ NewRow.cells[c + 1].left # G_BLANK]_vars

\* C23 witness: a record with no parent in the batch was processed while a
\* lane to its right was open: the batch is a merge H of R and X followed by
\* R and X, and the row of R has a single cell although X's lane was open
\* at index 1.
C23_Witness ==
    /\ InLayout
    /\ Len(slice) = 3
    /\ IdsOf(slice) = <<"A", "B", "C">>
    /\ slice[1].parent_commit_ids = <<"B", "C">>
    /\ slice[2].parent_commit_ids = <<>>
    /\ Len(rows) = 2
    /\ Len(rows[2].cells) = 1
    /\ active_lanes = <<"C">>

\* C24: in a row with a split or converge endpoint the right half is the
\* horizontal glyph in every column from node_lane up to but excluding the
\* furthest endpoint, and blank at the furthest endpoint and in every column
\* beyond it; in a row without endpoint every right half is blank.  Left of
\* node_lane the right halves are blank in both cases.
C24_RightHalves ==
    [][RowStep =>
          LET ends == StepSplits \cup StepConverges
              nl == NewRow.node_lane
          IN \A c \in 0..(Len(NewRow.cells) - 1) :
                NewRow.cells[c + 1].right =
                    IF ends # {} /\ nl <= c /\ c < SetMax(ends)
                    THEN G_HORIZ ELSE G_BLANK]_vars

\* The column of the rightmost corner glyph of a row, -1 if it has none.
LastCorner(row) ==
    LET cs == {c \in 0..(Len(row.cells) - 1) :
                  row.cells[c + 1].left \in {G_SPLIT, G_CONVERGE}}
    IN IF cs = {} THEN -1 ELSE SetMax(cs)

\* C24 witness: the rows so far contain one whose connector passes over a
\* column before reaching its furthest endpoint, one with a column beyond
\* its furthest endpoint, and one without endpoint, whose node column has a
\* blank right half.
C24_Witness ==
    /\ InLayout
    /\ \E i, j, h \in 1..Len(rows) :
          /\ LastCorner(rows[i]) >= rows[i].node_lane + 2
          /\ rows[i].cells[rows[i].node_lane + 2].right = G_HORIZ
          /\ rows[i].cells[LastCorner(rows[i]) + 1].right = G_BLANK
          /\ LastCorner(rows[j]) >= 0
          /\ Len(rows[j].cells) > LastCorner(rows[j]) + 1
          /\ rows[j].cells[Len(rows[j].cells)].right = G_BLANK
          /\ LastCorner(rows[h]) = -1
          /\ rows[h].cells[rows[h].node_lane + 1].right = G_BLANK

\* C25: in each row the left glyph is the split corner at exactly the
\* columns node_lane + 1 .. node_lane + (k - 1), k being the number of the
\* record's in-batch parents (no column when k is 0 or 1), and the converge
\* corner at exactly the columns obtained by adding the number of inserted
\* lanes to the index each duplicate lane had before the mutation; the two
\* sets are disjoint and strictly right of node_lane, every such column is a
\* cell of the row, and the furthest of them carries a corner: a corner
\* replaces the crossing or horizontal glyph the connector put there.
C25_Corners ==
    [][RowStep =>
          LET k == Len(StepParents)
              inserted == IF k >= 1 THEN k - 1 ELSE 0
              nl == NewRow.node_lane
              splits == (nl + 1)..(nl + inserted)
              convs == {d + inserted : d \in StepDups}
              cols == 0..(Len(NewRow.cells) - 1)
          IN /\ splits \cup convs \subseteq cols
             /\ \A c \in cols :
                   /\ NewRow.cells[c + 1].left = G_SPLIT <=> c \in splits
                   /\ NewRow.cells[c + 1].left = G_CONVERGE <=> c \in convs
             /\ splits \cap convs = {}
             /\ \A c \in splits \cup convs : c > nl
             /\ splits \cup convs # {} =>
                   NewRow.cells[SetMax(splits \cup convs) + 1].left
                       \in {G_SPLIT, G_CONVERGE}]_vars

\* C25 witness: a row so far shows split corners and, right of them,
\* converge corners: its record has several parents in the batch and was
\* held by several lanes.
C25_Witness ==
    /\ InLayout
    /\ \E i \in 1..Len(rows) :
          \E a, b \in 1..Len(rows[i].cells) :
              /\ a < b
              /\ rows[i].cells[a].left = G_SPLIT
              /\ rows[i].cells[b].left = G_CONVERGE
              /\ a > rows[i].node_lane + 1

\* C26: every row has exactly one half-cell tagged Node, the left half of
\* cells[node_lane], and its tag carries the is_working_copy and is_immutable
\* flags of the record at the row's index in the input; every other
\* half-cell, left or right, of column i is tagged Lane with lane = i.
C26_OneNodeHalfCell ==
    InLayout =>
        \A i \in 1..Len(rows) :
            /\ rows[i].node_lane < Len(rows[i].cells)
            /\ \A c \in 0..(Len(rows[i].cells) - 1) :
                  /\ rows[i].cells[c + 1].kind_right = [tag |-> "Lane", lane |-> c]
                  /\ rows[i].cells[c + 1].kind_left =
                        IF c = rows[i].node_lane
                        THEN [tag |-> "Node",
                              is_working_copy |-> slice[i].is_working_copy,
                              is_immutable |-> slice[i].is_immutable]
                        ELSE [tag |-> "Lane", lane |-> c]

\* C26 witness: a row after the first has its node right of column 0, whose
\* left half is tagged Lane, and its record is flagged working-copy and not
\* immutable.
C26_Witness ==
    /\ InLayout
    /\ \E i \in 2..Len(rows) :
          /\ rows[i].node_lane >= 1
          /\ rows[i].cells[1].kind_left.tag = "Lane"
          /\ slice[i].is_working_copy
          /\ ~slice[i].is_immutable
          /\ rows[i].cells[rows[i].node_lane + 1].kind_left.tag = "Node"

\* The batch es with every flag cleared: the batch all those with the same
\* ids and parent lists have in common.
Unflagged(es) ==
    [i \in 1..Len(es) |->
        LogEntry(es[i].commit_id_full, es[i].parent_commit_ids, FALSE, FALSE)]

\* A row without what its node half-cell shows: the glyph and the tag of the
\* left half of cells[node_lane] are blotted out.
WithoutNodeHalf(row) ==
    [row EXCEPT !.cells =
        [c \in 1..Len(row.cells) |->
            IF c = row.node_lane + 1
            THEN [row.cells[c] EXCEPT !.left = "?", !.kind_left = "?"]
            ELSE row.cells[c]]]

\* C27: the flags only choose the node glyph: the rows of a batch and the
\* rows of the batch with the same ids and the same parent lists in the same
\* order and no flag set have equal node_lane, equal active_lane_count,
\* equally many cells, and equal glyphs and tags in every half-cell other
\* than the node half-cell; two batches that differ only in their flags
\* share that unflagged batch, so their rows agree in the same way.
C27_FlagsOnlyChooseNodeGlyph ==
    Finished =>
        LET other == build_graph_rows(Unflagged(slice))
        IN /\ Len(other) = Len(rows)
           /\ \A i \in 1..Len(rows) :
                 /\ other[i].node_lane = rows[i].node_lane
                 /\ other[i].active_lane_count = rows[i].active_lane_count
                 /\ Len(other[i].cells) = Len(rows[i].cells)
                 /\ WithoutNodeHalf(other[i]) = WithoutNodeHalf(rows[i])

\* C27 witness: the layout of a batch is finished in which one record is
\* flagged working-copy and another immutable, a record has a parent in the
\* batch, and the rows differ from those of the unflagged batch.
C27_Witness ==
    /\ Finished
    /\ Len(rows) = Len(slice)
    /\ \E i, j \in 1..Len(slice) :
          /\ slice[i].is_working_copy
          /\ slice[j].is_immutable /\ ~slice[j].is_working_copy
    /\ \E i \in 1..Len(slice) : SliceParents(slice, slice[i]) # <<>>
    /\ build_graph_rows(Unflagged(slice)) # rows

\* The batch lists every record before all of its parents present in it.
ChildrenListedFirst(es) ==
    \A i, j \in 1..Len(es) : IsParentOf(es, j, i) => i < j

\* C28: when no record is flagged working-copy and the input, a DAG with
\* distinct ids, already lists every record before all of its in-batch
\* parents, the sequencer returns the records in exactly the input order.
C28_SequencedInputUnchanged ==
    (/\ Returned
     /\ WorkingCopies(records) = {}
     /\ DistinctIds(records)
     /\ IsDag(records)
     /\ ChildrenListedFirst(records)) => result = records

\* C28 witness: the sequencer has returned such a batch as it was: three
\* records, none flagged working-copy, two of them heads, and the first
\* naming the last as its parent, so that the second head was ready
\* together with that parent.
C28_Witness ==
    /\ Returned
    /\ Len(records) = 3
    /\ WorkingCopies(records) = {}
    /\ DistinctIds(records)
    /\ IsDag(records)
    /\ ChildrenListedFirst(records)
    /\ IsParentOf(records, 3, 1)
    /\ ~IsParentOf(records, 2, 1)
    /\ ~IsParentOf(records, 3, 2)
    /\ result = records

\* The priority queue has just been seeded and nothing was popped yet.
JustSeeded == pc = "kahn" /\ order = <<>> /\ emitted = {}

\* The positions in the batch of the records in the priority queue.
InHeap == {item.idx + 1 : item \in heap}

\* Some record of the batch other than record i lists the id of record i
\* among its parents.
NamedByAnother(es, i) ==
    \E j \in 1..Len(es) : j # i /\ IsParentOf(es, i, j)

\* C29 as stated: a record is seeded into the initial priority queue exactly
\* when no other record of the batch lists its id among its parents.
C29_SeededIffNoOtherNamesIt ==
    JustSeeded =>
        \A i \in 1..Len(records) :
            i \in InHeap <=> ~NamedByAnother(records, i)

\* C29 amended: the count includes a record's references to itself and is
\* kept for the last record carrying an id: a record is seeded exactly when
\* no record of the batch, itself included, lists its id among its parents,
\* or a later record of the batch carries the same id.
C29_SeededIffUnnamedOrShadowed ==
    JustSeeded =>
        \A i \in 1..Len(records) :
            i \in InHeap <=>
                \/ ~\E j \in 1..Len(records) : IsParentOf(records, i, j)
                \/ \E j \in (i + 1)..Len(records) :
                      records[j].commit_id_full = records[i].commit_id_full

\* C29 witness: the queue has just been seeded for a batch of three records
\* with distinct ids: one lists itself as a parent, is named by no other
\* record and is not in the queue; one is named by another record and is not
\* in the queue; one is named by nobody and is in the queue.
C29_Witness ==
    /\ JustSeeded
    /\ Len(records) = 3
    /\ DistinctIds(records)
    /\ \E i, j, h \in 1..3 :
          /\ IsParentOf(records, i, i)
          /\ ~NamedByAnother(records, i)
          /\ i \notin InHeap
          /\ j # i
          /\ NamedByAnother(records, j)
          /\ j \notin InHeap
          /\ ~\E q \in 1..3 : IsParentOf(records, h, q)
          /\ h \in InHeap

\* C30: in App, graph_rows always has the same length as entries: after
\* App::new and after every call of load_more_entries and refresh_log,
\* successful or failed; a call that returns an error leaves both fields as
\* they were.
C30_RowsMatchEntries ==
    /\ [](Len(graph_rows) = Len(entries))
    /\ [][last_call' \in {"load_more_err", "refresh_err"} =>
             UNCHANGED <<entries, graph_rows>>]_vars

\* C30 witness: a page was appended by load_more_entries (the list is longer
\* than one fetch can return), then refresh_log failed; the rows still match
\* the entries.
C30_Witness ==
    /\ last_call = "refresh_err"
    /\ log_limit # None
    /\ Len(entries) > BatchSize(log_limit)
    /\ Len(graph_rows) = Len(entries)

=============================================================================
